---- MODULE Spec2Model ----
(***************************************************************************)
(* Spreadsheet import pipeline of Gestão_Vendas.py: the column mapper      *)
(* (guess_mapping, tentar_mapeamento_automatico), the import workflow      *)
(* (iniciar_importacao, ImportMappingWindow, processar_importacao), the    *)
(* worker thread (_worker_import) and the sales table of DatabaseManager.  *)
(*                                                                         *)
(* Text is a sequence of one-character strings, so that lower(), strip()   *)
(* and the substring tests of guess_mapping are computed, not assumed.     *)
(* Characters outside ASCII are written as named tokens.                   *)
(***************************************************************************)
EXTENDS Integers, Sequences, FiniteSets, TLC

(* ------------------------------ bounds --------------------------------- *)
\* longest header drawn for the column mapper
MaxCols == 4
\* most rows in an imported file
MaxRows == 2
\* most combobox changes the user makes in one mapping dialog
MaxEdits == 2
\* a new import is started only while the store holds fewer sales than this
MaxSales == 2
\* most rows in a file drawn from the wider cell pools of RowHeaders
MaxRichRows == 1
\* most workers left running behind a closed progress window
MaxOrphans == 1
\* a sale is added by the form, and an import started, only while fewer ids
\* than this have been given out
MaxIds == 3
\* most sale rows of the table selected at once
MaxSelected == 2
\* columns of the short headers the classification is tried on
MaxGuessCols == 2

(* ------------------------------ text ----------------------------------- *)
ch_c_cedilla == "c_cedilla"
ch_C_cedilla == "C_CEDILLA"
ch_a_tilde == "a_tilde"
ch_A_tilde == "A_TILDE"
ch_a_acute == "a_acute"
ch_A_acute == "A_ACUTE"

UpperChars == <<"A","B","C","D","E","F","G","H","I","J","K","L","M","N","O","P","Q",
                "R","S","T","U","V","W","X","Y","Z", ch_C_cedilla, ch_A_tilde, ch_A_acute>>
LowerChars == <<"a","b","c","d","e","f","g","h","i","j","k","l","m","n","o","p","q",
                "r","s","t","u","v","w","x","y","z", ch_c_cedilla, ch_a_tilde, ch_a_acute>>
Whitespace == {" ", "\t", "\n", "\r"}

\* str.lower(), character by character
lower_char(c) ==
    IF \E i \in 1..Len(UpperChars) : UpperChars[i] = c
    THEN LowerChars[CHOOSE i \in 1..Len(UpperChars) : UpperChars[i] = c]
    ELSE c

\* a comparison that forgets str.lower()
lower_identity(s) == s

lower(s) == [i \in 1..Len(s) |-> lower_char(s[i])]

\* str.strip(): drop leading and trailing whitespace
strip(s) ==
    LET keep == {i \in 1..Len(s) : s[i] \notin Whitespace}
    IN  IF keep = {} THEN <<>>
        ELSE LET lo == CHOOSE i \in keep : \A j \in keep : i <= j
                 hi == CHOOSE i \in keep : \A j \in keep : j <= i
             IN  SubSeq(s, lo, hi)

\* Python's `term in col` on strings
contains(col, term) ==
    \E i \in 0..(Len(col) - Len(term)) : SubSeq(col, i + 1, i + Len(term)) = term

any_in(col, terms) == \E t \in terms : contains(col, t)

kw_cliente == <<"c","l","i","e","n","t","e">>
kw_comprador == <<"c","o","m","p","r","a","d","o","r">>
kw_produto == <<"p","r","o","d","u","t","o">>
kw_item == <<"i","t","e","m">>
kw_descricao == <<"d","e","s","c","r","i",ch_c_cedilla,ch_a_tilde,"o">>
kw_qtd == <<"q","t","d">>
kw_quant == <<"q","u","a","n","t">>
kw_quantidade == <<"q","u","a","n","t","i","d","a","d","e">>
kw_valor_unit == <<"v","a","l","o","r"," ","u","n","i","t">>
kw_preco_c_unit == <<"p","r","e",ch_c_cedilla,"o"," ","u","n","i","t">>
kw_preco_unit == <<"p","r","e","c","o"," ","u","n","i","t">>
kw_valor_unid == <<"v","a","l","o","r"," ","u","n","i","d">>
kw_preco_c_unid == <<"p","r","e",ch_c_cedilla,"o"," ","u","n","i","d">>
kw_vendedor == <<"v","e","n","d","e","d","o","r">>
kw_valor == <<"v","a","l","o","r">>
kw_preco_c == <<"p","r","e",ch_c_cedilla,"o">>
kw_preco == <<"p","r","e","c","o">>
kw_pagamento == <<"p","a","g","a","m","e","n","t","o">>
kw_forma == <<"f","o","r","m","a">>
kw_tipo == <<"t","i","p","o">>
kw_nome == <<"n","o","m","e">>

(* --------------------------- domain fields ----------------------------- *)
F_CLIENTE == "Nome do Cliente"
F_PRODUTO == "Nome do Produto"
F_QUANTIDADE == "Quantidade"
F_VALOR == "Valor por unidade (R$)"
F_PAGAMENTO == "Tipo de Pagamento"
F_VENDEDOR == "Nome do Vendedor"
IGNORAR == "Ignorar"

system_fields == <<F_CLIENTE, F_PRODUTO, F_QUANTIDADE, F_VALOR, F_PAGAMENTO, F_VENDEDOR>>

required_fields == {F_CLIENTE, F_PRODUTO, F_QUANTIDADE, F_VALOR}

(* --------------------------- column mapper ----------------------------- *)
\* a classification that tries the "nome" rule before every other rule
guess_mapping_nome_primeiro(column_name) ==
    LET col == strip(lower(column_name))
    IN  IF contains(col, kw_nome) THEN F_CLIENTE
        ELSE IF any_in(col, {kw_cliente, kw_comprador}) THEN F_CLIENTE
        ELSE IF any_in(col, {kw_produto, kw_item, kw_descricao}) THEN F_PRODUTO
        ELSE IF any_in(col, {kw_qtd, kw_quant, kw_quantidade}) THEN F_QUANTIDADE
        ELSE IF any_in(col, {kw_valor_unit, kw_preco_c_unit, kw_preco_unit,
                             kw_valor_unid, kw_preco_c_unid}) THEN F_VALOR
        ELSE IF contains(col, kw_vendedor) THEN F_VENDEDOR
        ELSE IF any_in(col, {kw_valor, kw_preco_c, kw_preco}) THEN F_VALOR
        ELSE IF contains(col, kw_pagamento) \/ any_in(col, {kw_forma, kw_tipo})
             THEN F_PAGAMENTO
        ELSE IGNORAR

\* SalesApp.guess_mapping: the first rule whose keyword the lower-cased,
\* stripped name contains
guess_mapping(column_name) ==
    LET col == strip(lower(column_name))
    IN  IF any_in(col, {kw_cliente, kw_comprador}) THEN F_CLIENTE
        ELSE IF any_in(col, {kw_produto, kw_item, kw_descricao}) THEN F_PRODUTO
        ELSE IF any_in(col, {kw_qtd, kw_quant, kw_quantidade}) THEN F_QUANTIDADE
        ELSE IF any_in(col, {kw_valor_unit, kw_preco_c_unit, kw_preco_unit,
                             kw_valor_unid, kw_preco_c_unid}) THEN F_VALOR
        ELSE IF contains(col, kw_vendedor) THEN F_VENDEDOR
        ELSE IF any_in(col, {kw_valor, kw_preco_c, kw_preco}) THEN F_VALOR
        ELSE IF contains(col, kw_pagamento) \/ any_in(col, {kw_forma, kw_tipo})
             THEN F_PAGAMENTO
        ELSE IF contains(col, kw_nome) THEN F_CLIENTE
        ELSE IGNORAR

col_Cliente == <<"C","l","i","e","n","t","e">>
col_Comprador == <<"C","o","m","p","r","a","d","o","r">>
col_Nome == <<"N","o","m","e">>
col_Produto == <<"P","r","o","d","u","t","o">>
col_Qtd == <<"Q","t","d">>
col_Quantidade == <<"Q","u","a","n","t","i","d","a","d","e">>
col_Valor == <<"V","a","l","o","r">>
col_Valor_Unitario == <<"V","a","l","o","r"," ","U","n","i","t",ch_a_acute,"r","i","o">>
col_Valor_Total == <<"V","a","l","o","r"," ","T","o","t","a","l">>
col_Unit == <<"U","n","i","t">>
col_Data == <<" ","D","a","t","a"," ">>
col_Item == <<"I","t","e","m">>
col_Quant == <<"Q","u","a","n","t">>
col_Preco == <<"P","r","e",ch_c_cedilla,"o">>
col_Forma == <<"F","o","r","m","a">>

\* column names of the table vendas and of the sheet exportar_dados writes
col_id == <<"i","d">>
col_data_hora == <<"d","a","t","a","_","h","o","r","a">>
col_nome_cliente == <<"n","o","m","e","_","c","l","i","e","n","t","e">>
col_nome_produto == <<"n","o","m","e","_","p","r","o","d","u","t","o">>
col_quantidade == <<"q","u","a","n","t","i","d","a","d","e">>
col_preco == <<"p","r","e","c","o">>
col_tipo_pagamento == <<"t","i","p","o","_","p","a","g","a","m","e","n","t","o">>
col_preco_final == <<"p","r","e","c","o","_","f","i","n","a","l">>
col_nome_vendedor == <<"n","o","m","e","_","v","e","n","d","e","d","o","r">>
col_ID_Venda == <<"I","D"," ","V","e","n","d","a">>
col_Valor_Unid == <<"V","a","l","o","r"," ","U","n","i","d","."," ","(","R","$",")">>
col_Preco_Final == <<"P","r","e",ch_c_cedilla,"o"," ","F","i","n","a","l"," ","(","R","$",")">>

\* column names carrying "nome" with the keywords of other fields
col_Nome_do_Produto == <<"N","o","m","e"," ","d","o"," ","P","r","o","d","u","t","o">>
col_Nome_do_Vendedor == <<"N","o","m","e"," ","d","o"," ","V","e","n","d","e","d","o","r">>
col_Nome_Cliente_Produto == <<"N","o","m","e"," ","d","o"," ","C","l","i","e","n","t","e"," ","e"," ","P","r","o","d","u","t","o">>

\* column names the mapper is tried on
ColumnNames == {col_Cliente, col_Comprador, col_Produto, col_Qtd,
                col_Quantidade, col_Valor_Unitario, col_Valor_Total, col_Data}

\* every column name of the files drawn below
KnownColumns == ColumnNames \cup {col_Nome, col_Valor, col_Unit,
                                   col_Item, col_Quant, col_Preco, col_Forma,
                                   col_ID_Venda, col_data_hora, col_nome_cliente,
                                   col_nome_produto, col_quantidade, col_Valor_Unid,
                                   col_tipo_pagamento, col_Preco_Final, col_nome_vendedor,
                                   col_Nome_do_Produto, col_Nome_do_Vendedor,
                                   col_Nome_Cliente_Produto}

\* guess_mapping, evaluated once per column name
guess_table == [c \in KnownColumns |-> guess_mapping(c)]
guess(column_name) == guess_table[column_name]

\* A Python dict is a sequence of <<key, value>> pairs in insertion order.
Range(seq) == {seq[i] : i \in 1..Len(seq)}

dict_keys(d) == {d[i][1] : i \in 1..Len(d)}
dict_values(d) == {d[i][2] : i \in 1..Len(d)}
dict_has(d, k) == k \in dict_keys(d)
dict_get(d, k) == d[CHOOSE i \in 1..Len(d) : d[i][1] = k][2]
\* d[k] = v: an existing key keeps its place, a new key goes last
dict_set(d, k, v) ==
    IF dict_has(d, k)
    THEN [i \in 1..Len(d) |-> IF d[i][1] = k THEN <<k, v>> ELSE d[i]]
    ELSE Append(d, <<k, v>>)

\* inner loop of tentar_mapeamento_automatico: the first column, in header
\* order, that guess_mapping gives `field` and that is not yet a key; 0 if none
\* the inner loop taking the last candidate column instead of the first
first_col_for_last(sheet_columns, field, mapping) ==
    LET hits == {i \in 1..Len(sheet_columns) :
                    /\ guess(sheet_columns[i]) = field
                    /\ ~dict_has(mapping, sheet_columns[i])}
    IN  IF hits = {} THEN 0 ELSE CHOOSE i \in hits : \A j \in hits : i >= j

first_col_for(sheet_columns, field, mapping) ==
    LET hits == {i \in 1..Len(sheet_columns) :
                    /\ guess(sheet_columns[i]) = field
                    /\ ~dict_has(mapping, sheet_columns[i])}
    IN  IF hits = {} THEN 0 ELSE CHOOSE i \in hits : \A j \in hits : i <= j

RECURSIVE map_fields(_, _, _, _)
\* outer loop of tentar_mapeamento_automatico, from system field number k on
map_fields(sheet_columns, k, mapping, found_fields) ==
    IF k > Len(system_fields)
    THEN [mapping |-> mapping, found_fields |-> found_fields]
    ELSE LET field == system_fields[k]
             i == first_col_for(sheet_columns, field, mapping)
         IN  IF i = 0
             THEN map_fields(sheet_columns, k + 1, mapping, found_fields)
             ELSE map_fields(sheet_columns, k + 1,
                             dict_set(mapping, sheet_columns[i], field),
                             IF field \in required_fields
                             THEN found_fields \cup {field} ELSE found_fields)

\* missing fields taken against the mapping's keys (column names) instead of
\* the fields that were found
tentar_mapeamento_por_chaves(sheet_columns) ==
    LET r == map_fields(sheet_columns, 1, <<>>, {})
    IN  [mapping |-> r.mapping, missing_fields |-> required_fields \ dict_keys(r.mapping)]

tentar_mapeamento_automatico(sheet_columns) ==
    LET r == map_fields(sheet_columns, 1, <<>>, {})
    IN  [mapping |-> r.mapping, missing_fields |-> required_fields \ r.found_fields]

(* ------------------------------ cells ---------------------------------- *)
\* A cell of the DataFrame is a Python str, int or float. Finite floats are
\* held in hundredths (10.5 is 1050); v is unused for inf, -inf and nan.
StrCell(s) == [t |-> "str", s |-> s, n |-> 0, k |-> "fin"]
IntCell(n) == [t |-> "int", s |-> <<>>, n |-> n, k |-> "fin"]
FloatCell(k, v) == [t |-> "float", s |-> <<>>, n |-> v, k |-> k]

Float(k, v) == [k |-> k, v |-> v]

DigitChars == <<"0","1","2","3","4","5","6","7","8","9">>
DigitSet == {DigitChars[i] : i \in 1..10}
digit_val(c) == (CHOOSE i \in 1..10 : DigitChars[i] = c) - 1

RECURSIVE digits_val(_)
\* value of a non-empty run of decimal digits
digits_val(ds) ==
    IF Len(ds) = 0 THEN 0
    ELSE digits_val(SubSeq(ds, 1, Len(ds) - 1)) * 10 + digit_val(ds[Len(ds)])

RECURSIVE nat_str(_)
nat_str(n) ==
    IF n < 10 THEN <<DigitChars[n + 1]>>
    ELSE nat_str(n \div 10) \o <<DigitChars[(n % 10) + 1]>>

int_str(n) == IF n < 0 THEN <<"-">> \o nat_str(-n) ELSE nat_str(n)

\* repr of a float: "10.5", "3.0", "0.25", "inf", "-inf", "nan"
float_str(f) ==
    IF f.k = "inf" THEN <<"i","n","f">>
    ELSE IF f.k = "-inf" THEN <<"-","i","n","f">>
    ELSE IF f.k = "nan" THEN <<"n","a","n">>
    ELSE LET a == IF f.v < 0 THEN -f.v ELSE f.v
             frac == a % 100
         IN  (IF f.v < 0 THEN <<"-">> ELSE <<>>)
             \o nat_str(a \div 100) \o <<".">>
             \o (IF frac % 10 = 0 THEN <<DigitChars[(frac \div 10) + 1]>>
                 ELSE <<DigitChars[(frac \div 10) + 1], DigitChars[(frac % 10) + 1]>>)

\* str(x)
py_str(cell) ==
    IF cell.t = "str" THEN cell.s
    ELSE IF cell.t = "int" THEN int_str(cell.n)
    ELSE float_str(Float(cell.k, cell.n))

\* a conversion that leaves the comma in place
replace_comma_identity(s) == s

\* str.replace(",", ".")
replace_comma(s) == [i \in 1..Len(s) |-> IF s[i] = "," THEN "." ELSE s[i]]

unsigned(t) == IF Len(t) > 0 /\ t[1] \in {"+", "-"} THEN Tail(t) ELSE t
negative(t) == Len(t) > 0 /\ t[1] = "-"

\* int(s) for a str: optional sign and decimal digits, whitespace around
int_of_str(s) ==
    LET t == strip(s)
        body == unsigned(t)
    IN  IF Len(body) > 0 /\ \A i \in 1..Len(body) : body[i] \in DigitSet
        THEN [exc |-> "none",
              v |-> IF negative(t) THEN -digits_val(body) ELSE digits_val(body)]
        ELSE [exc |-> "ValueError", v |-> 0]

\* int(x) for a cell: a float is truncated toward zero, inf and nan raise
py_int(cell) ==
    IF cell.t = "str" THEN int_of_str(cell.s)
    ELSE IF cell.t = "int" THEN [exc |-> "none", v |-> cell.n]
    ELSE IF cell.k \in {"inf", "-inf"} THEN [exc |-> "OverflowError", v |-> 0]
    ELSE IF cell.k = "nan" THEN [exc |-> "ValueError", v |-> 0]
    ELSE [exc |-> "none",
          v |-> IF cell.n < 0 THEN -((-cell.n) \div 100) ELSE cell.n \div 100]

\* float(s) for a str: sign, then inf/infinity/nan, or digits with at most one
\* point and at least one digit; the value is kept to two decimals
float_of_str(s) ==
    LET t == strip(s)
        body == lower(unsigned(t))
        dots == {i \in 1..Len(body) : body[i] = "."}
        p == IF dots = {} THEN Len(body) + 1 ELSE CHOOSE i \in dots : TRUE
        ip == SubSeq(body, 1, p - 1)
        fp == SubSeq(body, p + 1, Len(body))
        fp2 == SubSeq(fp \o <<"0", "0">>, 1, 2)
        mag == digits_val(ip) * 100 + digits_val(fp2)
    IN  IF body \in {<<"i","n","f">>, <<"i","n","f","i","n","i","t","y">>}
        THEN [exc |-> "none", f |-> Float(IF negative(t) THEN "-inf" ELSE "inf", 0)]
        ELSE IF body = <<"n","a","n">>
        THEN [exc |-> "none", f |-> Float("nan", 0)]
        ELSE IF /\ Cardinality(dots) <= 1
                /\ Len(ip) + Len(fp) > 0
                /\ \A i \in 1..Len(body) : body[i] \in DigitSet \cup {"."}
        THEN [exc |-> "none", f |-> Float("fin", IF negative(t) THEN -mag ELSE mag)]
        ELSE [exc |-> "ValueError", f |-> Float("fin", 0)]

\* float(str(x).replace(",", "."))
py_float(cell) == float_of_str(replace_comma(py_str(cell)))

\* x < 0 and int * float on floats
float_lt_zero(f) == f.k = "-inf" \/ (f.k = "fin" /\ f.v < 0)

float_mul_int(q, f) ==
    IF f.k = "fin" THEN Float("fin", q * f.v)
    ELSE IF f.k = "nan" \/ q = 0 THEN Float("nan", 0)
    ELSE IF (q > 0) = (f.k = "inf") THEN Float("inf", 0)
    ELSE Float("-inf", 0)

(* --------------------------- row conversion ---------------------------- *)
NAO_INFORMADO == <<"N",ch_a_tilde,"o"," ","I","n","f","o","r","m","a","d","o">>
IMPORTADO == <<"I","m","p","o","r","t","a","d","o">>

RECURSIVE invert_from(_, _, _)
invert_from(mapping, i, acc) ==
    IF i > Len(mapping) THEN acc
    ELSE invert_from(mapping, i + 1, dict_set(acc, mapping[i][2], mapping[i][1]))

\* system_to_sheet = {v: k for k, v in mapping.items()}
system_to_sheet(mapping) == invert_from(mapping, 1, <<>>)

\* row[col]: the cell of the row under the column named col
row_cell(row, columns, col) == row[CHOOSE i \in 1..Len(columns) : columns[i] = col]

\* row.get(system_to_sheet.get(field), default), then str()
row_get_str(row, columns, s2s, field, default) ==
    IF dict_has(s2s, field)
    THEN py_str(row_cell(row, columns, dict_get(s2s, field)))
    ELSE default

NoDraft == [nome_cliente |-> <<>>, nome_produto |-> <<>>, quantidade |-> 0,
            preco |-> Float("fin", 0), tipo_pagamento |-> <<>>,
            preco_final |-> Float("fin", 0), nome_vendedor |-> <<>>]

Skipped(kind, exc) == [kind |-> kind, exc |-> exc, draft |-> NoDraft]

\* The body of the for loop of _worker_import for one row. kind is "append"
\* (a candidate was built), "continue" (the validity test failed), "except"
\* (KeyError, ValueError or TypeError was caught) or "raise" (an exception the
\* except clause does not name left the loop).
convert_row(row, columns, s2s) ==
    IF ~dict_has(s2s, F_CLIENTE) \/ ~dict_has(s2s, F_PRODUTO)
       \/ ~dict_has(s2s, F_QUANTIDADE)
    THEN Skipped("except", "KeyError")
    ELSE
    LET nome_cliente == py_str(row_cell(row, columns, dict_get(s2s, F_CLIENTE)))
        nome_produto == py_str(row_cell(row, columns, dict_get(s2s, F_PRODUTO)))
        q == py_int(row_cell(row, columns, dict_get(s2s, F_QUANTIDADE)))
    IN  IF q.exc = "OverflowError" THEN Skipped("raise", q.exc)
        ELSE IF q.exc # "none" THEN Skipped("except", q.exc)
        ELSE IF ~dict_has(s2s, F_VALOR) THEN Skipped("except", "KeyError")
        ELSE
        LET p == py_float(row_cell(row, columns, dict_get(s2s, F_VALOR)))
            tipo_pagamento == row_get_str(row, columns, s2s, F_PAGAMENTO, NAO_INFORMADO)
            nome_vendedor == row_get_str(row, columns, s2s, F_VENDEDOR, IMPORTADO)
        IN  IF p.exc # "none" THEN Skipped("except", p.exc)
            ELSE IF nome_cliente = <<>> \/ nome_produto = <<>>
                    \/ q.v <= 0 \/ float_lt_zero(p.f)
            THEN Skipped("continue", "none")
            ELSE [kind |-> "append", exc |-> "none",
                  draft |-> [nome_cliente |-> nome_cliente,
                             nome_produto |-> nome_produto,
                             quantidade |-> q.v,
                             preco |-> p.f,
                             tipo_pagamento |-> tipo_pagamento,
                             preco_final |-> float_mul_int(q.v, p.f),
                             nome_vendedor |-> nome_vendedor]]

(* ------------------------------ inputs --------------------------------- *)
\* pandas makes the column names of a file distinct

RECURSIVE headers_upto(_)
\* the headers of at most n distinct names
headers_upto(n) ==
    IF n = 0 THEN {<<>>}
    ELSE LET shorter == headers_upto(n - 1)
         IN  shorter \cup
             UNION {{Append(h, c) : c \in ColumnNames \ {h[i] : i \in 1..Len(h)}} :
                        h \in {g \in shorter : Len(g) = n - 1}}

\* the headers the mapper is tried on
MapperHeaders == headers_upto(MaxCols)

\* headers of the files that are imported with rows
ExecHeaders == {
    <<col_Cliente, col_Produto, col_Qtd, col_Valor>>,
    <<col_Cliente, col_Produto, col_Qtd, col_Quantidade, col_Valor>>,
    <<col_Cliente, col_Produto, col_Qtd, col_Unit>>,
    <<>> }

\* the columns exportar_dados selects from the table vendas
vendas_select_columns ==
    <<col_id, col_data_hora, col_nome_cliente, col_nome_produto, col_quantidade,
      col_preco, col_tipo_pagamento, col_preco_final, col_nome_vendedor>>

\* df_vendas.rename(columns={...}) of exportar_dados
rename_columns(columns) ==
    [i \in 1..Len(columns) |->
        IF columns[i] = col_id THEN col_ID_Venda
        ELSE IF columns[i] = col_preco THEN col_Valor_Unid
        ELSE IF columns[i] = col_preco_final THEN col_Preco_Final
        ELSE columns[i]]

\* the header of the sheet Vendas that exportar_dados writes
ExportedHeader == rename_columns(vendas_select_columns)

\* column names the classification is tried on
GuessNames == {col_Nome, col_Nome_do_Produto, col_Nome_do_Vendedor,
               col_Nome_Cliente_Produto, col_tipo_pagamento, col_Preco_Final,
               col_Valor_Unid, col_Data, col_Forma, col_Quant, col_Valor_Total}

\* headers of at most n distinct names
RECURSIVE headers_of(_, _)
headers_of(names, n) ==
    IF n = 0 THEN {<<>>}
    ELSE LET shorter == headers_of(names, n - 1)
         IN  shorter \cup
             UNION {{Append(h, c) : c \in names \ {h[i] : i \in 1..Len(h)}} :
                        h \in {g \in shorter : Len(g) = n - 1}}

\* the exported sheet and short headers over GuessNames
GuessHeaders == {ExportedHeader} \cup headers_of(GuessNames, MaxGuessCols)

\* a file with a payment column and no seller column, imported with rows drawn
\* from wider pools of cells
RowHeaders == {<<col_Nome, col_Item, col_Quant, col_Preco, col_Forma>>}

c_Ana == StrCell(<<"A","n","a">>)
c_Pao == StrCell(<<"P",ch_a_tilde,"o">>)
c_vazio == StrCell(<<>>)
c_3 == StrCell(<<"3">>)
c_abc == StrCell(<<"a","b","c">>)
c_10v50 == StrCell(<<"1","0",",","5","0">>)
c_10p50 == StrCell(<<"1","0",".","5","0">>)
c_espacos == StrCell(<<" "," ">>)
c_0 == StrCell(<<"0">>)
c_m3 == StrCell(<<"-","3">>)
c_3p5 == StrCell(<<"3",".","5">>)
c_m5 == StrCell(<<"-","5">>)
c_Pix == StrCell(<<"P","i","x">>)
c_nan == StrCell(<<"n","a","n">>)

\* cells a row may hold under each column
CellsFor(col) ==
    IF col = col_Cliente THEN {c_Ana, c_vazio}
    ELSE IF col = col_Produto THEN {c_Pao}
    ELSE IF col = col_Qtd THEN {c_3, c_abc, IntCell(0), FloatCell("inf", 0)}
    ELSE IF col = col_Quantidade THEN {IntCell(7)}
    ELSE IF col \in {col_Valor, col_Unit} THEN {c_10v50}
    ELSE IF col = col_Nome THEN {c_Ana, c_espacos}
    ELSE IF col = col_Item THEN {c_Pao}
    ELSE IF col = col_Quant THEN {c_3, c_0, c_m3, c_3p5, FloatCell("fin", 350), c_abc}
    ELSE IF col = col_Preco THEN {c_10v50, c_10p50, c_m5, c_nan}
    ELSE IF col = col_Forma THEN {c_Pix, c_vazio}
    ELSE {c_abc}

RECURSIVE rows_from(_, _)
rows_from(columns, i) ==
    IF i > Len(columns) THEN {<<>>}
    ELSE {<<c>> \o r : c \in CellsFor(columns[i]), r \in rows_from(columns, i + 1)}

\* the rows a file with these columns may hold
RowsOf(columns) == rows_from(columns, 1)

\* a sale already in the store when the application starts
VendaAntiga == [id |-> 1, nome_cliente |-> <<"R","u","i">>, nome_produto |-> <<"B","o","l","o">>,
                quantidade |-> 2, preco |-> Float("fin", 500),
                tipo_pagamento |-> <<"P","i","x">>, preco_final |-> Float("fin", 1000),
                nome_vendedor |-> <<"L","i","a">>]

(* ------------------------------- state --------------------------------- *)
VARIABLES
    phase,            \* modal state of the UI: "Idle", "Confirm", "ManualReview", "Execute"
    shown,            \* the message box the last handler showed
    df,               \* the DataFrame read from the file: its columns; iterrows
                      \* supplies the rows, and the end of the file, as the loop runs
    auto_mapping,     \* iniciar_importacao's auto_mapping
    missing_fields,   \* iniciar_importacao's missing_fields
    answer,           \* what askyesno returned: "none" while unanswered, "yes", "no"
    column_mappings,  \* ImportMappingWindow.column_mappings: column -> combobox value
    edits,            \* combobox changes made in the open dialog
    mapping,          \* the mapping given to processar_importacao
    thread,           \* the worker: "none", "rows", "finished", "crashed"
    index,            \* rows the for loop of _worker_import has consumed
    row,              \* the row the for loop read last, <<>> before the first
    sales_to_insert,  \* _worker_import's candidate batch
    stdout,           \* lines the worker printed: spreadsheet row and exception
    after_queue,      \* callbacks posted with root.after(0, ...) and not yet run
    progress_value,   \* progress_bar's value
    tree,             \* ids of the sales the table shows
    vendas,           \* rows of table vendas, in id order
    seq_vendas,       \* the AUTOINCREMENT counter of table vendas
    h_visited,        \* phases the current import has passed through, in order
    h_outcomes,       \* what the loop did with each row consumed, in row order
    h_vendas_antes,   \* table vendas when the worker was started
    h_insert,         \* what insert_multiple_sales returned: "none", "ok", "failed"
    h_worker_ui,      \* the UI calls made on the worker thread itself, in order
    orphans,          \* the workers still in their loop whose progress window the
                      \* user has closed: columns, mapping, index, sales_to_insert
    h_ui_db_during_worker,  \* the interaction thread has used the store while a
                      \* worker had not yet returned from its bulk insert
    id_venda_em_edicao,  \* SalesApp.id_venda_em_edicao: <<>> for None, <<id>> in edit mode
    h_save_effect     \* every salvar_dados so far changed the store and the edit
                      \* mode as save_effect says

wf_vars == <<df, auto_mapping, missing_fields, answer, column_mappings, edits, mapping>>
worker_vars == <<thread, index, row, sales_to_insert, stdout, h_outcomes, h_insert,
                 h_worker_ui>>
store_vars == <<vendas, seq_vendas>>
form_vars == <<id_venda_em_edicao, h_save_effect>>
vars == <<phase, shown, wf_vars, worker_vars, after_queue, progress_value, tree,
          store_vars, h_visited, h_vendas_antes, orphans, h_ui_db_during_worker,
          form_vars>>

NoDf == [columns |-> <<>>, open |-> FALSE]
MsgBox(kind, title, n) == [kind |-> kind, title |-> title, n |-> n]
NoMsg == MsgBox("none", "", 0)

\* id_venda_em_edicao = None
NoEdit == <<>>

InitialStores == {<<VendaAntiga>>}

Init ==
    /\ phase = "Idle"
    /\ shown = NoMsg
    /\ df = NoDf
    /\ auto_mapping = <<>>
    /\ missing_fields = {}
    /\ answer = "none"
    /\ column_mappings = <<>>
    /\ edits = 0
    /\ mapping = <<>>
    /\ thread = "none"
    /\ index = 0
    /\ row = <<>>
    /\ sales_to_insert = <<>>
    /\ stdout = <<>>
    /\ after_queue = <<>>
    /\ progress_value = 0
    /\ vendas \in InitialStores
    /\ seq_vendas = Len(vendas)
    /\ tree = [i \in 1..Len(vendas) |-> vendas[Len(vendas) + 1 - i].id]
    /\ h_visited = <<>>
    /\ h_outcomes = <<>>
    /\ h_vendas_antes = <<>>
    /\ h_insert = "none"
    /\ h_worker_ui = <<>>
    /\ orphans = <<>>
    /\ h_ui_db_during_worker = FALSE
    /\ id_venda_em_edicao = NoEdit
    /\ h_save_effect = TRUE

(* ---------------------------- UI handlers ------------------------------ *)
\* ImportMappingWindow.__init__: one combobox per column, in column order
seed_column_mappings(columns, initial_mapping) ==
    [i \in 1..Len(columns) |->
        <<columns[i],
          IF initial_mapping # <<>> /\ dict_has(initial_mapping, columns[i])
          THEN dict_get(initial_mapping, columns[i])
          ELSE guess(columns[i])>>]

\* ImportMappingWindow(...) opened by iniciar_importacao
open_mapping_window(columns, initial_mapping) ==
    /\ phase' = "ManualReview"
    /\ column_mappings' = seed_column_mappings(columns, initial_mapping)
    /\ edits' = 0

\* processar_importacao: the progress window takes the grab, the worker starts
processar_importacao(m) ==
    /\ phase' = "Execute"
    /\ h_visited' = Append(h_visited, "Execute")
    /\ progress_value' = 0
    /\ mapping' = m
    /\ thread' = "rows"
    /\ index' = 0
    /\ row' = <<>>
    /\ sales_to_insert' = <<>>
    /\ stdout' = <<>>
    /\ h_outcomes' = <<>>
    /\ h_insert' = "none"
    /\ h_worker_ui' = <<>>
    /\ h_vendas_antes' = vendas

\* the completeness test always passing
always_found(missing) == TRUE

\* `if not missing_fields` of iniciar_importacao
all_required_found(missing) == missing = {}

\* iniciar_importacao up to its first dialog: the file is read and auto-mapped.
\* The file dialog it opens first runs the event loop, which runs the callbacks
\* that are already due before it returns the chosen path.
iniciar_importacao(columns) ==
    /\ phase = "Idle"
    /\ after_queue = <<>>
    /\ Len(vendas) < MaxSales
    /\ seq_vendas < MaxIds
    /\ LET r == tentar_mapeamento_automatico(columns)
       IN  /\ df' = [columns |-> columns, open |-> TRUE]
           /\ auto_mapping' = r.mapping
           /\ missing_fields' = r.missing_fields
           /\ answer' = "none"
           /\ IF all_required_found(r.missing_fields)
              THEN /\ phase' = "Confirm"
                   /\ h_visited' = <<"Confirm">>
                   /\ shown' = MsgBox("askyesno", "Mapeamento Automatico", 0)
                   /\ UNCHANGED <<column_mappings, edits>>
              ELSE /\ shown' = MsgBox("warning", "Mapeamento Incompleto", 0)
                   /\ h_visited' = <<"ManualReview">>
                   /\ open_mapping_window(columns, r.mapping)
    /\ UNCHANGED <<mapping, worker_vars, after_queue, progress_value, tree,
                   store_vars, h_vendas_antes>>
    /\ UNCHANGED <<orphans, h_ui_db_during_worker>>
    /\ UNCHANGED form_vars

\* a read failure that goes on to open the mapping dialog on an empty frame
iniciar_importacao_erro_com_dialogo ==
    /\ phase = "Idle"
    /\ after_queue = <<>>
    /\ shown' = MsgBox("error", "Erro ao Ler Arquivo", 0)
    /\ open_mapping_window(<<>>, <<>>)
    /\ h_visited' = <<"ManualReview">>
    /\ UNCHANGED <<df, auto_mapping, missing_fields, answer, mapping, worker_vars,
                   after_queue, progress_value, tree, store_vars, h_vendas_antes>>
    /\ UNCHANGED <<orphans, h_ui_db_during_worker>>
    /\ UNCHANGED form_vars

\* iniciar_importacao when pd.read_csv / pd.read_excel raises
iniciar_importacao_erro ==
    /\ phase = "Idle"
    /\ after_queue = <<>>
    /\ shown' = MsgBox("error", "Erro ao Ler Arquivo", 0)
    /\ UNCHANGED <<phase, wf_vars, worker_vars, after_queue, progress_value, tree,
                   store_vars, h_visited, h_vendas_antes>>
    /\ UNCHANGED <<orphans, h_ui_db_during_worker>>
    /\ UNCHANGED form_vars

\* askyesno answered yes
askyesno_yes ==
    /\ phase = "Confirm"
    /\ answer' = "yes"
    /\ processar_importacao(auto_mapping)
    /\ UNCHANGED <<shown, df, auto_mapping, missing_fields, column_mappings, edits,
                   after_queue, tree, store_vars>>
    /\ UNCHANGED <<orphans, h_ui_db_during_worker>>
    /\ UNCHANGED form_vars

\* askyesno answered no: the user reviews the mapping
askyesno_no ==
    /\ phase = "Confirm"
    /\ open_mapping_window(df.columns, auto_mapping)
    /\ h_visited' = Append(h_visited, "ManualReview")
    /\ answer' = "no"
    /\ UNCHANGED <<shown, df, auto_mapping, missing_fields, mapping, worker_vars,
                   after_queue, progress_value, tree, store_vars, h_vendas_antes>>
    /\ UNCHANGED <<orphans, h_ui_db_during_worker>>
    /\ UNCHANGED form_vars

FieldChoices == {IGNORAR} \cup {system_fields[i] : i \in 1..Len(system_fields)}

\* the user picks another value in the combobox of column number i
set_combo(i, value) ==
    /\ phase = "ManualReview"
    /\ edits < MaxEdits
    /\ i \in 1..Len(column_mappings)
    /\ column_mappings[i][2] # value
    /\ column_mappings' = [column_mappings EXCEPT ![i] = <<column_mappings[i][1], value>>]
    /\ edits' = edits + 1
    /\ UNCHANGED <<phase, shown, df, auto_mapping, missing_fields, answer, mapping,
                   worker_vars, after_queue, progress_value, tree, store_vars,
                   h_visited, h_vendas_antes>>
    /\ UNCHANGED <<orphans, h_ui_db_during_worker>>
    /\ UNCHANGED form_vars

\* the completeness test forgetting the unit value
mapping_complete_sem_valor(fm) ==
    {F_CLIENTE, F_PRODUTO, F_QUANTIDADE} \subseteq dict_values(fm)

\* the completeness test passing as soon as one required field is mapped
mapping_complete_qualquer(fm) == required_fields \cap dict_values(fm) # {}

\* required_fields.issubset(mapped_fields) of ImportMappingWindow.confirm
mapping_complete(fm) == required_fields \subseteq dict_values(fm)

\* final_mapping of ImportMappingWindow.confirm
final_mapping(cm) == SelectSeq(cm, LAMBDA kv : kv[2] # IGNORAR)

\* ImportMappingWindow.confirm
confirm ==
    /\ phase = "ManualReview"
    /\ LET fm == final_mapping(column_mappings)
       IN  IF ~mapping_complete(fm)
           THEN /\ shown' = MsgBox("error", "Mapeamento Incompleto", 0)
                /\ UNCHANGED <<phase, column_mappings, edits, mapping, worker_vars,
                               progress_value, h_visited, h_vendas_antes>>
           ELSE /\ processar_importacao(fm)
                /\ column_mappings' = <<>>
                /\ edits' = 0
                /\ UNCHANGED shown
    /\ UNCHANGED <<df, auto_mapping, missing_fields, answer, after_queue, tree,
                   store_vars>>
    /\ UNCHANGED <<orphans, h_ui_db_during_worker>>
    /\ UNCHANGED form_vars

\* the dialog's Cancelar button: ImportMappingWindow.destroy
cancelar ==
    /\ phase = "ManualReview"
    /\ phase' = "Idle"
    /\ column_mappings' = <<>>
    /\ edits' = 0
    /\ df' = NoDf
    /\ auto_mapping' = <<>>
    /\ missing_fields' = {}
    /\ answer' = "none"
    /\ h_visited' = <<>>
    /\ UNCHANGED <<shown, mapping, worker_vars, after_queue, progress_value, tree,
                   store_vars, h_vendas_antes>>
    /\ UNCHANGED <<orphans, h_ui_db_during_worker>>
    /\ UNCHANGED form_vars

(* ------------------------------ store ---------------------------------- *)
\* the rows executemany adds for the batch, with the ids AUTOINCREMENT gives
\* a REAL bound by sqlite3: NaN is stored as NULL, every other float as it is
sqlite_real(f) == IF f.k = "nan" THEN Float("null", 0) ELSE f

\* the rows an INSERT of the tuples writes, ids given by AUTOINCREMENT
inserted_rows(sales_data_list, seq) ==
    [i \in 1..Len(sales_data_list) |->
        [id |-> seq + i,
         nome_cliente |-> sales_data_list[i].nome_cliente,
         nome_produto |-> sales_data_list[i].nome_produto,
         quantidade |-> sales_data_list[i].quantidade,
         preco |-> sqlite_real(sales_data_list[i].preco),
         tipo_pagamento |-> sales_data_list[i].tipo_pagamento,
         preco_final |-> sqlite_real(sales_data_list[i].preco_final),
         nome_vendedor |-> sales_data_list[i].nome_vendedor]]

\* a failed bulk insert that keeps the rows written before the error
insert_multiple_sales_sem_rollback(sales_data_list, ok) ==
    IF ok
    THEN /\ vendas' = vendas \o inserted_rows(sales_data_list, seq_vendas)
         /\ seq_vendas' = seq_vendas + Len(sales_data_list)
         /\ UNCHANGED shown
    ELSE /\ vendas' = vendas \o SubSeq(inserted_rows(sales_data_list, seq_vendas), 1, 1)
         /\ seq_vendas' = seq_vendas + 1
         /\ shown' = MsgBox("error", "Erro de Banco de Dados", 0)

\* a bulk insert that leaves out the rows the table already holds
insert_multiple_sales_dedup(sales_data_list, ok) ==
    IF ok
    THEN LET ja_gravada(d) ==
                 \E i \in 1..Len(vendas) :
                     /\ vendas[i].nome_cliente = d.nome_cliente
                     /\ vendas[i].nome_produto = d.nome_produto
                     /\ vendas[i].quantidade = d.quantidade
                     /\ vendas[i].preco = d.preco
             novas == SelectSeq(sales_data_list, LAMBDA d : ~ja_gravada(d))
         IN  /\ vendas' = vendas \o inserted_rows(novas, seq_vendas)
             /\ seq_vendas' = seq_vendas + Len(novas)
             /\ UNCHANGED shown
    ELSE /\ UNCHANGED <<vendas, seq_vendas>>
         /\ shown' = MsgBox("error", "Erro de Banco de Dados", 0)

\* DatabaseManager.insert_multiple_sales: executemany and commit, or, when
\* sqlite3 raises, rollback, an error box and False
insert_multiple_sales(sales_data_list, ok) ==
    IF ok
    THEN /\ vendas' = vendas \o inserted_rows(sales_data_list, seq_vendas)
         /\ seq_vendas' = seq_vendas + Len(sales_data_list)
         /\ UNCHANGED shown
    ELSE /\ UNCHANGED <<vendas, seq_vendas>>
         /\ shown' = MsgBox("error", "Erro de Banco de Dados", 0)

\* fetch_all_sales("") as atualizar_tabela shows it: ids, newest first
fetch_all_ids(v) == [i \in 1..Len(v) |-> v[Len(v) + 1 - i].id]

(* --------------------------- worker thread ----------------------------- *)
\* a callback that does not keep the value it was posted with
Callback_valor_fixo(cb, p) == [cb |-> cb, p |-> 1]

\* a call posted with root.after(0, ...): the callable and the value bound to it
Callback(cb, p) == [cb |-> cb, p |-> p]

\* one iteration of the for loop of _worker_import, on the row r that iterrows
\* yields; index is the row's label, so the spreadsheet row is index + 2
worker_row(r) ==
    /\ thread = "rows"
    /\ index < MaxRows
    /\ LET res == convert_row(r, df.columns, system_to_sheet(mapping))
       IN  /\ h_outcomes' = Append(h_outcomes, res.kind)
           /\ row' = r
           /\ IF res.kind = "raise"
              THEN /\ thread' = "crashed"
                   /\ UNCHANGED <<index, sales_to_insert, stdout, after_queue>>
              ELSE /\ thread' = thread
                   /\ index' = index + 1
                   /\ sales_to_insert' = IF res.kind = "append"
                                         THEN Append(sales_to_insert, res.draft)
                                         ELSE sales_to_insert
                   /\ stdout' = IF res.kind = "except"
                                THEN Append(stdout, [linha |-> index + 2, erro |-> res.exc])
                                ELSE stdout
                   /\ after_queue' = IF res.kind = "append"
                                     THEN Append(after_queue, Callback("progress", index + 1))
                                     ELSE after_queue
    /\ UNCHANGED <<phase, shown, wf_vars, h_insert, h_worker_ui, progress_value, tree,
                   store_vars, h_visited, h_vendas_antes>>
    /\ UNCHANGED <<orphans, h_ui_db_during_worker>>
    /\ UNCHANGED form_vars

\* a worker that reports a failed insert with the "no valid rows" warning
worker_commit_aviso_na_falha(ok) ==
    /\ thread = "rows"
    /\ thread' = "finished"
    /\ IF sales_to_insert # <<>>
       THEN /\ insert_multiple_sales(sales_to_insert, ok)
            /\ h_insert' = IF ok THEN "ok" ELSE "failed"
            /\ h_worker_ui' = IF ok THEN h_worker_ui
                              ELSE Append(h_worker_ui, "messagebox.showerror")
            /\ after_queue' =
                  Append(after_queue,
                         IF ok THEN Callback("showinfo", Len(sales_to_insert))
                         ELSE Callback("showwarning", 0))
                  \o <<Callback("destroy", 0), Callback("atualizar_tabela", 0)>>
       ELSE /\ ok
            /\ h_insert' = "none"
            /\ after_queue' = after_queue \o <<Callback("showwarning", 0),
                                               Callback("destroy", 0),
                                               Callback("atualizar_tabela", 0)>>
            /\ UNCHANGED <<shown, vendas, seq_vendas, h_worker_ui>>
    /\ UNCHANGED <<phase, wf_vars, index, row, sales_to_insert, stdout, h_outcomes,
                   progress_value, tree, h_visited, h_vendas_antes>>
    /\ UNCHANGED <<orphans, h_ui_db_during_worker>>
    /\ UNCHANGED form_vars

\* _worker_import once iterrows is exhausted (len(df) = index): the bulk insert
\* and the completion callbacks
worker_commit(ok) ==
    /\ thread = "rows"
    /\ thread' = "finished"
    /\ IF sales_to_insert # <<>>
       THEN /\ insert_multiple_sales(sales_to_insert, ok)
            /\ h_insert' = IF ok THEN "ok" ELSE "failed"
            /\ h_worker_ui' = IF ok THEN h_worker_ui
                              ELSE Append(h_worker_ui, "messagebox.showerror")
            /\ after_queue' =
                  (IF ok
                   THEN Append(after_queue, Callback("showinfo", Len(sales_to_insert)))
                   ELSE after_queue)
                  \o <<Callback("destroy", 0), Callback("atualizar_tabela", 0)>>
       ELSE /\ ok
            /\ h_insert' = "none"
            /\ after_queue' = after_queue \o <<Callback("showwarning", 0),
                                               Callback("destroy", 0),
                                               Callback("atualizar_tabela", 0)>>
            /\ UNCHANGED <<shown, vendas, seq_vendas, h_worker_ui>>
    /\ UNCHANGED <<phase, wf_vars, index, row, sales_to_insert, stdout, h_outcomes,
                   progress_value, tree, h_visited, h_vendas_antes>>
    /\ UNCHANGED <<orphans, h_ui_db_during_worker>>
    /\ UNCHANGED form_vars

(* --------------------------- Tk event loop ----------------------------- *)
\* progress_window.destroy: the grab is released; the import's DataFrame,
\* mapping and worker are gone
destroy_progress_window ==
    /\ phase' = "Idle"
    /\ df' = NoDf
    /\ auto_mapping' = <<>>
    /\ missing_fields' = {}
    /\ answer' = "none"
    /\ mapping' = <<>>
    /\ thread' = "none"
    /\ index' = 0
    /\ row' = <<>>
    /\ sales_to_insert' = <<>>
    /\ stdout' = <<>>
    /\ h_outcomes' = <<>>
    /\ h_insert' = "none"
    /\ h_worker_ui' = <<>>
    /\ h_visited' = <<>>
    /\ h_vendas_antes' = <<>>
    /\ progress_value' = 0
    /\ UNCHANGED <<column_mappings, edits>>

\* the event loop runs the oldest callback posted with root.after(0, ...)
run_after ==
    /\ after_queue # <<>>
    /\ after_queue' = Tail(after_queue)
    /\ LET c == Head(after_queue)
       IN  /\ shown' = IF c.cb = "showinfo" THEN MsgBox("info", "Sucesso", c.p)
                       ELSE IF c.cb = "showwarning" THEN MsgBox("warning", "Aviso", 0)
                       ELSE shown
           /\ tree' = IF c.cb = "atualizar_tabela" THEN fetch_all_ids(vendas) ELSE tree
           /\ h_ui_db_during_worker' =
                 (h_ui_db_during_worker
                  \/ (c.cb = "atualizar_tabela" /\ (thread = "rows" \/ orphans # <<>>)))
           /\ IF c.cb = "destroy"
              THEN destroy_progress_window
              ELSE /\ progress_value' = IF c.cb = "progress" THEN c.p ELSE progress_value
                   /\ UNCHANGED <<phase, wf_vars, worker_vars, h_visited, h_vendas_antes>>
    /\ UNCHANGED <<store_vars, orphans>>
    /\ UNCHANGED form_vars

(* ------------------ the progress window closed by hand ----------------- *)
\* a callback whose widget has been destroyed: progress_bar.config raises
\* TclError inside the callback, destroy of a destroyed window does nothing
widget_gone(c) ==
    IF c.cb = "progress" THEN Callback("progress_gone", c.p)
    ELSE IF c.cb = "destroy" THEN Callback("destroy_gone", c.p)
    ELSE c

\* The user closes the progress window with the window manager's close
\* button: processar_importacao sets no WM_DELETE_WINDOW handler, so the
\* Toplevel is destroyed and its grab released. The worker, if still in its
\* loop, runs on with the df and mapping it was started with.
fechar_janela_progresso ==
    /\ phase = "Execute"
    /\ thread = "rows" => Len(orphans) < MaxOrphans
    /\ orphans' = IF thread = "rows"
                  THEN Append(orphans, [columns |-> df.columns, mapping |-> mapping,
                                        index |-> index,
                                        sales_to_insert |-> sales_to_insert])
                  ELSE orphans
    /\ after_queue' = [i \in 1..Len(after_queue) |-> widget_gone(after_queue[i])]
    /\ destroy_progress_window
    /\ UNCHANGED <<shown, tree, store_vars, h_ui_db_during_worker>>
    /\ UNCHANGED form_vars

\* one iteration of the for loop of _worker_import in a worker whose progress
\* window is closed
orphan_row(i, r) ==
    /\ i \in 1..Len(orphans)
    /\ orphans[i].index < MaxRows
    /\ LET w == orphans[i]
           res == convert_row(r, w.columns, system_to_sheet(w.mapping))
           others == [j \in 1..(Len(orphans) - 1) |->
                         IF j < i THEN orphans[j] ELSE orphans[j + 1]]
       IN  /\ orphans' =
                 IF res.kind = "raise" THEN others
                 ELSE [orphans EXCEPT ![i] =
                          [w EXCEPT !.index = w.index + 1,
                                    !.sales_to_insert =
                                        IF res.kind = "append"
                                        THEN Append(w.sales_to_insert, res.draft)
                                        ELSE w.sales_to_insert]]
           /\ stdout' = IF res.kind = "except"
                        THEN Append(stdout, [linha |-> w.index + 2, erro |-> res.exc])
                        ELSE stdout
           /\ after_queue' = IF res.kind = "append"
                             THEN Append(after_queue, Callback("progress_gone", w.index + 1))
                             ELSE after_queue
    /\ UNCHANGED <<phase, shown, wf_vars, thread, index, row, sales_to_insert,
                   h_outcomes, h_insert, h_worker_ui, progress_value, tree,
                   store_vars, h_visited, h_vendas_antes, h_ui_db_during_worker>>
    /\ UNCHANGED form_vars

\* the bulk insert and the completion callbacks of a worker whose progress
\* window is closed
orphan_commit(i, ok) ==
    /\ i \in 1..Len(orphans)
    /\ LET w == orphans[i]
       IN  /\ orphans' = [j \in 1..(Len(orphans) - 1) |->
                             IF j < i THEN orphans[j] ELSE orphans[j + 1]]
           /\ IF w.sales_to_insert # <<>>
              THEN /\ insert_multiple_sales(w.sales_to_insert, ok)
                   /\ after_queue' =
                         (IF ok
                          THEN Append(after_queue,
                                      Callback("showinfo", Len(w.sales_to_insert)))
                          ELSE after_queue)
                         \o <<Callback("destroy_gone", 0), Callback("atualizar_tabela", 0)>>
              ELSE /\ ok
                   /\ after_queue' = after_queue \o <<Callback("showwarning", 0),
                                                      Callback("destroy_gone", 0),
                                                      Callback("atualizar_tabela", 0)>>
                   /\ UNCHANGED <<shown, vendas, seq_vendas>>
    /\ UNCHANGED <<phase, wf_vars, worker_vars, progress_value, tree, h_visited,
                   h_vendas_antes, h_ui_db_during_worker>>
    /\ UNCHANGED form_vars

\* a key released in the search box of the main window: atualizar_tabela
on_search_key_release ==
    /\ phase = "Idle"
    /\ tree' = fetch_all_ids(vendas)
    /\ h_ui_db_during_worker' = (h_ui_db_during_worker \/ orphans # <<>>)
    /\ UNCHANGED <<phase, shown, wf_vars, worker_vars, after_queue, progress_value,
                   store_vars, h_visited, h_vendas_antes, orphans>>
    /\ UNCHANGED form_vars

(* ----------------------------- sale form ------------------------------- *)
TOTAL_ROW_ID == "total_row_id"

\* what the user has typed into the six fields of the form
FormTexts ==
    [nome_cliente : {<<"A","n","a">>, <<" ">>},
     nome_produto : {<<"P",ch_a_tilde,"o">>},
     quantidade : {<<"3">>, <<"0">>},
     preco : {<<"1","0",",","5","0">>, <<"-","5">>},
     tipo_pagamento : {<<"P","i","x">>},
     nome_vendedor : {<<"L","i","a">>}]

\* tree.selection(): the sale rows selected and whether the total row is
Selections == [ids : {S \in SUBSET Range(tree) : Cardinality(S) <= MaxSelected},
               total : BOOLEAN]
selection_len(sel) == Cardinality(sel.ids) + (IF sel.total THEN 1 ELSE 0)

\* a form save that passes every field as valid
nothing_invalid(quantidade, preco_unitario) == FALSE

\* the tests of salvar_dados that raise ValueError: int(), float(), and
\* `quantidade <= 0 or preco_unitario < 0`
invalid_values(quantidade, preco_unitario) ==
    \/ quantidade.exc # "none"
    \/ preco_unitario.exc # "none"
    \/ quantidade.v <= 0
    \/ float_lt_zero(preco_unitario.f)

\* DatabaseManager.insert_sale: INSERT and commit, or, when sqlite3 raises,
\* rollback and an error box (the caller's box comes after it)
insert_sale(data, ok) ==
    IF ok
    THEN /\ vendas' = vendas \o inserted_rows(<<data>>, seq_vendas)
         /\ seq_vendas' = seq_vendas + 1
    ELSE UNCHANGED <<vendas, seq_vendas>>

\* DatabaseManager.update_sale: UPDATE ... WHERE id=? and commit, or rollback
update_sale(sale_id, data, ok) ==
    /\ vendas' = IF ok
                 THEN [i \in 1..Len(vendas) |->
                          IF vendas[i].id = sale_id
                          THEN [inserted_rows(<<data>>, 0)[1] EXCEPT !.id = sale_id]
                          ELSE vendas[i]]
                 ELSE vendas
    /\ UNCHANGED seq_vendas

\* DatabaseManager.delete_sale for each selected id; falhas are the ids whose
\* DELETE raises and is rolled back
delete_sales(ids, falhas) ==
    /\ vendas' = SelectSeq(vendas, LAMBDA v : v.id \notin (ids \ falhas))
    /\ UNCHANGED seq_vendas

\* DatabaseManager.fetch_sale_by_id: the row number of the sale, 0 for None
fetch_sale_by_id(sale_id) ==
    IF \E i \in 1..Len(vendas) : vendas[i].id = sale_id
    THEN CHOOSE i \in 1..Len(vendas) : vendas[i].id = sale_id
    ELSE 0

\* the ids of the sales in the store
sale_ids(v) == {v[i].id : i \in 1..Len(v)}

\* a form that validation rejects: a field blank once stripped, a quantity
\* that is not a positive integer, a price that is not a number or is negative
form_rejected(campos) ==
    \/ \E f \in DOMAIN campos : strip(campos[f]) = <<>>
    \/ int_of_str(strip(campos.quantidade)).exc # "none"
    \/ int_of_str(strip(campos.quantidade)).v <= 0
    \/ float_of_str(replace_comma(strip(campos.preco))).exc # "none"
    \/ float_lt_zero(float_of_str(replace_comma(strip(campos.preco))).f)

\* what a save with the texts campos does to the store and to the edit mode;
\* ok is whether the store accepted the statement
save_effect(campos, ok) ==
    IF form_rejected(campos)
    THEN /\ vendas' = vendas
         /\ id_venda_em_edicao' = id_venda_em_edicao
    ELSE IF id_venda_em_edicao # NoEdit
    THEN /\ Len(vendas') = Len(vendas)
         /\ \A i \in 1..Len(vendas) :
               /\ vendas'[i].id = vendas[i].id
               /\ vendas[i].id # id_venda_em_edicao[1] => vendas'[i] = vendas[i]
               /\ (ok /\ vendas[i].id = id_venda_em_edicao[1]) =>
                     /\ vendas'[i].nome_cliente = strip(campos.nome_cliente)
                     /\ vendas'[i].quantidade = int_of_str(strip(campos.quantidade)).v
         /\ id_venda_em_edicao' = NoEdit
    ELSE /\ ok => /\ Len(vendas') = Len(vendas) + 1
                  /\ SubSeq(vendas', 1, Len(vendas)) = vendas
                  /\ vendas'[Len(vendas')].id \notin sale_ids(vendas)
                  /\ vendas'[Len(vendas')].nome_cliente = strip(campos.nome_cliente)
         /\ ~ok => vendas' = vendas
         /\ id_venda_em_edicao' = NoEdit

\* SalesApp.salvar_dados with the texts campos in the form; h_save_effect
\* records whether every save so far had the effect save_effect describes
salvar_dados(campos, ok) ==
    /\ phase = "Idle"
    /\ LET dados == [f \in DOMAIN campos |-> strip(campos[f])]
           quantidade == int_of_str(dados.quantidade)
           preco_unitario == float_of_str(replace_comma(dados.preco))
           venda == [nome_cliente |-> dados.nome_cliente,
                     nome_produto |-> dados.nome_produto,
                     quantidade |-> quantidade.v,
                     preco |-> preco_unitario.f,
                     tipo_pagamento |-> dados.tipo_pagamento,
                     preco_final |-> float_mul_int(quantidade.v, preco_unitario.f),
                     nome_vendedor |-> dados.nome_vendedor]
       IN  IF \E f \in DOMAIN dados : dados[f] = <<>>
           THEN /\ shown' = MsgBox("warning", "Atencao", 0)
                /\ UNCHANGED <<store_vars, tree, id_venda_em_edicao>>
           ELSE IF invalid_values(quantidade, preco_unitario)
           THEN /\ shown' = MsgBox("error", "Erro de Validacao", 0)
                /\ UNCHANGED <<store_vars, tree, id_venda_em_edicao>>
           ELSE /\ IF id_venda_em_edicao # NoEdit
                   THEN update_sale(id_venda_em_edicao[1], venda, ok)
                   ELSE /\ Len(vendas) < MaxSales
                        /\ seq_vendas < MaxIds
                        /\ insert_sale(venda, ok)
                /\ shown' = MsgBox("info", "Sucesso", 0)
                /\ id_venda_em_edicao' = NoEdit
                /\ tree' = fetch_all_ids(vendas')
    /\ h_save_effect' = (h_save_effect /\ save_effect(campos, ok))
    /\ UNCHANGED <<phase, wf_vars, worker_vars, after_queue, progress_value, h_visited,
                   h_vendas_antes, orphans, h_ui_db_during_worker>>

\* SalesApp.limpar_campos_e_resetar_edicao as the command of the button
\* "Cancelar Edicao"
limpar_campos_e_resetar_edicao ==
    /\ phase = "Idle"
    /\ id_venda_em_edicao' = NoEdit
    /\ UNCHANGED <<phase, shown, wf_vars, worker_vars, after_queue, progress_value, tree,
                   store_vars, h_visited, h_vendas_antes, orphans,
                   h_ui_db_during_worker, h_save_effect>>

\* SalesApp.carregar_para_edicao with the selection sel; ok is whether the
\* SELECT of fetch_sale_by_id worked
carregar_para_edicao(sel, ok) ==
    /\ phase = "Idle"
    /\ IF selection_len(sel) # 1 \/ sel.total
       THEN /\ shown' = MsgBox("warning", "Atencao", 0)
            /\ UNCHANGED id_venda_em_edicao
       ELSE LET venda_id == CHOOSE i \in sel.ids : TRUE
            IN  IF ~ok
                THEN /\ shown' = MsgBox("error", "Erro de Banco de Dados", 0)
                     /\ UNCHANGED id_venda_em_edicao
                ELSE /\ UNCHANGED shown
                     /\ id_venda_em_edicao' = IF fetch_sale_by_id(venda_id) # 0
                                              THEN <<venda_id>>
                                              ELSE id_venda_em_edicao
    /\ UNCHANGED <<phase, wf_vars, worker_vars, after_queue, progress_value, tree,
                   store_vars, h_visited, h_vendas_antes, orphans,
                   h_ui_db_during_worker, h_save_effect>>

\* SalesApp.excluir_venda_selecionada with the selection sel, the answer to
\* the confirmation box and the ids whose DELETE fails
excluir_venda_selecionada(sel, yes, falhas) ==
    /\ phase = "Idle"
    /\ falhas \subseteq sel.ids
    /\ IF sel.ids = {}
       THEN /\ shown' = MsgBox("warning", "Atencao", 0)
            /\ UNCHANGED <<store_vars, tree, id_venda_em_edicao>>
       ELSE IF ~yes
       THEN /\ shown' = MsgBox("askyesno", "Confirmar Exclusao", 0)
            /\ UNCHANGED <<store_vars, tree, id_venda_em_edicao>>
       ELSE /\ delete_sales(sel.ids, falhas)
            /\ shown' = MsgBox("info", "Sucesso", 0)
            /\ tree' = fetch_all_ids(vendas')
            /\ id_venda_em_edicao' = NoEdit
    /\ UNCHANGED <<phase, wf_vars, worker_vars, after_queue, progress_value, h_visited,
                   h_vendas_antes, orphans, h_ui_db_during_worker, h_save_effect>>

(* --------------------------- specifications ---------------------------- *)
Next ==
    \/ \E columns \in ExecHeaders : iniciar_importacao(columns)
    \/ iniciar_importacao_erro
    \/ askyesno_yes
    \/ askyesno_no
    \/ confirm
    \/ cancelar
    \/ thread = "rows" /\ \E r \in RowsOf(df.columns) : worker_row(r)
    \/ \E ok \in BOOLEAN : worker_commit(ok)
    \/ run_after

Spec == Init /\ [][Next]_vars

\* the mapping dialog under the user's edits, up to the start of the worker
NextReview ==
    \/ \E columns \in ExecHeaders : iniciar_importacao(columns)
    \/ askyesno_yes
    \/ askyesno_no
    \/ phase = "ManualReview"
       /\ \E i \in 1..Len(column_mappings), value \in FieldChoices : set_combo(i, value)
    \/ confirm
    \/ cancelar

SpecReview == Init /\ [][NextReview]_vars

\* the column mapper and the seeding of the mapping dialog, over all headers
NextMap ==
    \/ \E columns \in MapperHeaders : iniciar_importacao(columns)
    \/ askyesno_no
    \/ cancelar

SpecMap == Init /\ [][NextMap]_vars

\* files imported while the user may close the progress window
CloseHeaders == {<<col_Cliente, col_Produto, col_Quantidade, col_Valor>>}

\* imports during which the user closes the progress window and goes on using
\* the main window
NextClose ==
    \/ \E columns \in CloseHeaders : iniciar_importacao(columns)
    \/ askyesno_yes
    \/ thread = "rows" /\ \E r \in RowsOf(df.columns) : worker_row(r)
    \/ \E ok \in BOOLEAN : worker_commit(ok)
    \/ run_after
    \/ fechar_janela_progresso
    \/ \E i \in 1..Len(orphans) :
          \E r \in RowsOf(orphans[i].columns) : orphan_row(i, r)
    \/ \E i \in 1..Len(orphans), ok \in BOOLEAN : orphan_commit(i, ok)
    \/ on_search_key_release

SpecClose == Init /\ [][NextClose]_vars

\* the conversion of rows, over files of at most MaxRichRows rows and answer yes
NextRows ==
    \/ \E columns \in RowHeaders : iniciar_importacao(columns)
    \/ askyesno_yes
    \/ thread = "rows" /\ index < MaxRichRows
       /\ \E r \in RowsOf(df.columns) : worker_row(r)
    \/ \E ok \in BOOLEAN : worker_commit(ok)
    \/ run_after

SpecRows == Init /\ [][NextRows]_vars

\* headers of the files imported between uses of the sale form
FormHeaders == {<<col_Comprador, col_Produto, col_Quantidade, col_Valor>>}

\* the sale form used between imports
NextForm ==
    \/ \E campos \in FormTexts, ok \in BOOLEAN : salvar_dados(campos, ok)
    \/ limpar_campos_e_resetar_edicao
    \/ \E sel \in Selections, ok \in BOOLEAN : carregar_para_edicao(sel, ok)
    \/ \E sel \in Selections, yes \in BOOLEAN :
          \E falhas \in {{}, sel.ids} : excluir_venda_selecionada(sel, yes, falhas)
    \/ \E columns \in FormHeaders : iniciar_importacao(columns)
    \/ askyesno_yes
    \/ thread = "rows" /\ index < MaxRichRows
       /\ \E r \in RowsOf(df.columns) : worker_row(r)
    \/ \E ok \in BOOLEAN : worker_commit(ok)
    \/ run_after

SpecForm == Init /\ [][NextForm]_vars

\* the mapper on the exported sheet and on names that match several rules
NextGuess ==
    \/ \E columns \in GuessHeaders : iniciar_importacao(columns)
    \/ askyesno_no
    \/ cancelar

SpecGuess == Init /\ [][NextGuess]_vars

\* the state after construction on a machine without a database file:
\* _initialize_db creates an empty table vendas
InitVazio ==
    /\ phase = "Idle"
    /\ shown = NoMsg
    /\ df = NoDf
    /\ auto_mapping = <<>>
    /\ missing_fields = {}
    /\ answer = "none"
    /\ column_mappings = <<>>
    /\ edits = 0
    /\ mapping = <<>>
    /\ thread = "none"
    /\ index = 0
    /\ row = <<>>
    /\ sales_to_insert = <<>>
    /\ stdout = <<>>
    /\ after_queue = <<>>
    /\ progress_value = 0
    /\ vendas = <<>>
    /\ seq_vendas = 0
    /\ tree = <<>>
    /\ h_visited = <<>>
    /\ h_outcomes = <<>>
    /\ h_vendas_antes = <<>>
    /\ h_insert = "none"
    /\ h_worker_ui = <<>>
    /\ orphans = <<>>
    /\ h_ui_db_during_worker = FALSE
    /\ id_venda_em_edicao = NoEdit
    /\ h_save_effect = TRUE

\* headers of the files imported one after the other
TwiceHeaders == {<<col_Cliente, col_Produto, col_Quantidade, col_Valor>>,
                 <<col_Cliente, col_Produto, col_Qtd, col_Valor>>}

\* imports, one after the other, into a store that starts empty
NextTwice ==
    \/ \E columns \in TwiceHeaders : iniciar_importacao(columns)
    \/ askyesno_yes
    \/ thread = "rows" /\ \E r \in RowsOf(df.columns) : worker_row(r)
    \/ \E ok \in BOOLEAN : worker_commit(ok)
    \/ run_after

SpecTwice == InitVazio /\ [][NextTwice]_vars

(* ----------------------- claims: column mapper -------------------------- *)
\* position of a column in the header
col_pos(columns, c) == CHOOSE i \in 1..Len(columns) : columns[i] = c

\* the columns of the header that the auto-mapping assigns to field f
cols_mapped_to(m, f) == {m[i][1] : i \in {j \in 1..Len(m) : m[j][2] = f}}

\* the columns of the header that guess_mapping classifies as field f
cols_classified(columns, f) == {columns[i] : i \in {j \in 1..Len(columns) : guess(columns[j]) = f}}

\* C6: in the auto-mapping of an opened file every domain field has at most one
\* column; when several columns classify as the same field the one mapped is
\* the first of them in header order and the later ones are left unmapped.
C6_AtMostOnePerField ==
    df.open =>
        \A k \in 1..Len(system_fields) :
            LET f == system_fields[k]
                mapped == cols_mapped_to(auto_mapping, f)
                cands == cols_classified(df.columns, f)
            IN  /\ Cardinality(mapped) <= 1
                /\ cands = {} => mapped = {}
                /\ cands # {} =>
                      /\ mapped \subseteq cands
                      /\ mapped # {}
                      /\ \A c \in mapped, d \in cands :
                            col_pos(df.columns, c) <= col_pos(df.columns, d)

\* C6 witness: a file whose header has two columns classified as Quantity,
\* "Qtd" before "Quantidade", has been auto-mapped
C6_Witness ==
    /\ df.open
    /\ col_Qtd \in dict_keys(auto_mapping)
    /\ col_Quantidade \in cols_classified(df.columns, F_QUANTIDADE)
    /\ col_Quantidade \notin dict_keys(auto_mapping)

\* C7 as the spec states it: whenever the header has a column named "Cliente",
\* the auto-mapping assigns that column to Client Name.
C7_ClienteAlwaysMapped ==
    (df.open /\ col_Cliente \in Range(df.columns)) =>
        /\ dict_has(auto_mapping, col_Cliente)
        /\ dict_get(auto_mapping, col_Cliente) = F_CLIENTE

\* C7: a column named "Cliente" is assigned to Client Name unless an earlier
\* column of the header is classified as Client Name too, in which case
\* "Cliente" is left unmapped; it is never assigned to another field.
C7_ClienteMappedUnlessPreceded ==
    (df.open /\ col_Cliente \in Range(df.columns)) =>
        LET p == col_pos(df.columns, col_Cliente)
            preceded == \E j \in 1..(p - 1) : guess(df.columns[j]) = F_CLIENTE
        IN  /\ ~preceded => /\ dict_has(auto_mapping, col_Cliente)
                            /\ dict_get(auto_mapping, col_Cliente) = F_CLIENTE
            /\ preceded => ~dict_has(auto_mapping, col_Cliente)

\* C7 witness: "Cliente" is mapped to Client Name in a header where it is not
\* the first column
C7_Witness ==
    /\ df.open
    /\ Len(df.columns) >= 2
    /\ df.columns[1] # col_Cliente
    /\ dict_has(auto_mapping, col_Cliente)
    /\ dict_get(auto_mapping, col_Cliente) = F_CLIENTE

\* C8: the unmatched set the mapper reports is exactly the required fields
\* that no column was mapped to; for an empty header the mapping is empty and
\* all four required fields are unmatched.
C8_MissingFieldsExact ==
    df.open =>
        /\ missing_fields = {f \in required_fields : cols_mapped_to(auto_mapping, f) = {}}
        /\ df.columns = <<>> =>
              /\ auto_mapping = <<>>
              /\ missing_fields = required_fields
              /\ Cardinality(missing_fields) = 4

\* C8 witness: a file mapped with some required fields found and others not
C8_Witness ==
    /\ df.open
    /\ missing_fields # {}
    /\ missing_fields # required_fields
    /\ F_CLIENTE \notin missing_fields

\* C10 as the spec states it: when the mapping dialog opens, every column the
\* auto-mapping holds shows its field, every other column shows Ignorar, and
\* no two columns show the same field.
C10_SeededFromAutoMapping ==
    (phase = "ManualReview" /\ edits = 0) =>
        /\ Len(column_mappings) = Len(df.columns)
        /\ \A i \in 1..Len(column_mappings) :
              /\ column_mappings[i][1] = df.columns[i]
              /\ column_mappings[i][2] =
                    IF dict_has(auto_mapping, df.columns[i])
                    THEN dict_get(auto_mapping, df.columns[i])
                    ELSE IGNORAR
        /\ \A i, j \in 1..Len(column_mappings) :
              (i # j /\ column_mappings[i][2] # IGNORAR) =>
                  column_mappings[i][2] # column_mappings[j][2]

(* ------------------------- claims: workflow ---------------------------- *)
\* C4: after auto-mapping, a file with no required field unmatched enters
\* Confirm, and from Confirm goes to Execute on yes and to Manual Review on no;
\* a file with a required field unmatched goes to Manual Review first, without
\* passing through Confirm.
C4_Routing ==
    /\ phase = "Confirm" => (missing_fields = {} /\ h_visited = <<"Confirm">>)
    /\ (df.open /\ missing_fields = {}) =>
          /\ h_visited # <<>>
          /\ h_visited[1] = "Confirm"
          /\ answer = "none" => phase = "Confirm"
          /\ answer = "yes" => h_visited = <<"Confirm", "Execute">>
          /\ answer = "no" =>
                /\ Len(h_visited) >= 2
                /\ h_visited[2] = "ManualReview"
    /\ (df.open /\ missing_fields # {}) =>
          /\ h_visited # <<>>
          /\ h_visited[1] = "ManualReview"
          /\ "Confirm" \notin Range(h_visited)
          /\ answer = "none"

\* C4 witness: an import that went from Confirm, on no, to Manual Review and
\* from there to Execute
C4_Witness ==
    /\ answer = "no"
    /\ h_visited = <<"Confirm", "ManualReview", "Execute">>
    /\ phase = "Execute"

\* some required field has no column in the dialog's comboboxes
incomplete(cm) == \E f \in required_fields : \A i \in 1..Len(cm) : cm[i][2] # f

\* C5: while the mapping dialog leaves a required field without a column, no
\* step starts Execute or changes the store, and a step that neither edits a
\* combobox nor cancels (a submission) keeps the dialog open in Manual Review
\* and shows the "Mapeamento Incompleto" error.
C5_IncompleteRejected ==
    [][ (phase = "ManualReview" /\ incomplete(column_mappings)) =>
            /\ phase' \in {"ManualReview", "Idle"}
            /\ thread' = "none"
            /\ vendas' = vendas
            /\ (phase' = "ManualReview" /\ column_mappings' = column_mappings) =>
                  shown' = MsgBox("error", "Mapeamento Incompleto", 0) ]_vars

\* C5 witness: an edited dialog that lacks a required field has been submitted
\* and rejected, and is still open
C5_Witness ==
    /\ phase = "ManualReview"
    /\ edits > 0
    /\ incomplete(column_mappings)
    /\ shown = MsgBox("error", "Mapeamento Incompleto", 0)
    /\ thread = "none"

(* -------------------------- claims: Execute ---------------------------- *)
\* how many of the rows processed so far had one of the given outcomes
count_outcomes(h, kinds) == Cardinality({i \in 1..Len(h) : h[i] \in kinds})

\* C1 as the spec states it: no row makes the worker stop before the end of
\* the file, and when the bulk insert succeeds the store has gained one record
\* per row that passed coercion and validation, every other row being skipped.
C1_RejectionNeverAborts ==
    /\ thread # "crashed"
    /\ (thread = "finished" /\ h_insert = "ok") =>
          /\ Len(vendas) = Len(h_vendas_antes) + count_outcomes(h_outcomes, {"append"})
          /\ count_outcomes(h_outcomes, {"append"})
               + count_outcomes(h_outcomes, {"except", "continue"}) = Len(h_outcomes)

\* the candidate and the stored record hold the same sale
same_sale(v, d) ==
    /\ v.nome_cliente = d.nome_cliente
    /\ v.nome_produto = d.nome_produto
    /\ v.quantidade = d.quantidade
    /\ v.preco = d.preco
    /\ v.tipo_pagamento = d.tipo_pagamento
    /\ v.preco_final = d.preco_final
    /\ v.nome_vendedor = d.nome_vendedor

\* C2: once the worker has finished, if the bulk insert failed the store is
\* what it was before the import; if it succeeded the store is what it was
\* before followed by one record for every candidate of the batch, in order.
C2_AllOrNothing ==
    thread = "finished" =>
        /\ h_insert = "failed" => vendas = h_vendas_antes
        /\ h_insert = "ok" =>
              /\ Len(vendas) = Len(h_vendas_antes) + Len(sales_to_insert)
              /\ SubSeq(vendas, 1, Len(h_vendas_antes)) = h_vendas_antes
              /\ \A i \in 1..Len(sales_to_insert) :
                    same_sale(vendas[Len(h_vendas_antes) + i], sales_to_insert[i])

\* C2 witness: a batch of two valid candidates whose bulk insert failed
C2_Witness ==
    /\ thread = "finished"
    /\ h_insert = "failed"
    /\ Len(sales_to_insert) >= 2

\* spreadsheet row numbers of the rows skipped so far, in input order
skipped_lines(h) ==
    SelectSeq([i \in 1..Len(h) |-> i + 1], LAMBDA n : h[n - 1] \in {"except", "continue"})

\* C3 as the spec states it: the rows recorded as skipped are exactly the rows
\* skipped so far, by a coercion error or by a failed validity condition, each
\* with its spreadsheet row number and a cause, in input order.
C3_EverySkipRecorded ==
    thread \in {"rows", "finished"} =>
        /\ [i \in 1..Len(stdout) |-> stdout[i].linha] = skipped_lines(h_outcomes)
        /\ \A i \in 1..Len(stdout) : stdout[i].erro # "none"

\* the first column, in header order, that the mapping assigns to field f
first_mapped_col(m, columns, f) ==
    LET cs == cols_mapped_to(m, f)
    IN  CHOOSE c \in cs : \A d \in cs : col_pos(columns, c) <= col_pos(columns, d)

\* the quantities int() can make of the cells drawn for a column
quantities_of(col) == {py_int(c).v : c \in {x \in CellsFor(col) : py_int(x).exc = "none"}}

\* C9 as the spec states it: when the mapping handed to Execute assigns two or
\* more columns to Quantity, every candidate's quantity is read from the first
\* of those columns in header order.
C9_FirstDuplicateWins ==
    (thread \in {"rows", "finished"}
        /\ Cardinality(cols_mapped_to(mapping, F_QUANTIDADE)) >= 2) =>
        \A i \in 1..Len(sales_to_insert) :
            sales_to_insert[i].quantidade
                \in quantities_of(first_mapped_col(mapping, df.columns, F_QUANTIDADE))

(* ----------------------- claims: row conversion ------------------------ *)
\* the loop has read a row and the row became a candidate
last_row_appended == row # <<>> /\ h_outcomes[Len(h_outcomes)] = "append"

\* the candidate made of the row read last
last_draft == sales_to_insert[Len(sales_to_insert)]

\* the cell of the row read last under the column the mapping gives field f
last_cell(f) == row_cell(row, df.columns, first_mapped_col(mapping, df.columns, f))

\* the cell denotes a positive integer: digits with an optional sign as text,
\* an int, or a float without a fractional part
positive_integer_cell(c) ==
    IF c.t = "str"
    THEN LET t == strip(c.s)
             body == IF Len(t) > 0 /\ t[1] = "+" THEN Tail(t) ELSE t
         IN  /\ Len(body) > 0
             /\ \A i \in 1..Len(body) : body[i] \in DigitSet
             /\ \E i \in 1..Len(body) : body[i] # "0"
    ELSE IF c.t = "int" THEN c.n > 0
    ELSE c.k = "fin" /\ c.n > 0 /\ c.n % 100 = 0

\* C11 as the spec states it: a row becomes a candidate only if its Quantity
\* cell denotes a positive integer; zero, a negative number, 3.5 as text or as
\* a number, and non-numeric text are rejected.
C11_QuantityPositiveInteger ==
    last_row_appended => positive_integer_cell(last_cell(F_QUANTIDADE))

\* C12 as the spec states it: a row becomes a candidate only if its client
\* name and its product name are non-empty after trimming whitespace.
C12_NamesNonEmptyTrimmed ==
    last_row_appended =>
        /\ strip(py_str(last_cell(F_CLIENTE))) # <<>>
        /\ strip(py_str(last_cell(F_PRODUTO))) # <<>>

\* what the spec gives an optional field: the sentinel when the field has no
\* column or the cell is empty, the cell's text otherwise
optional_value(f, sentinel) ==
    IF cols_mapped_to(mapping, f) = {} THEN sentinel
    ELSE IF py_str(last_cell(f)) = <<>> THEN sentinel
    ELSE py_str(last_cell(f))

\* C13 as the spec states it: in every candidate Payment Type is "Não
\* Informado" and Seller Name is "Importado" when the field is unmapped or the
\* row's cell for it is empty, and the cell's value otherwise.
C13_OptionalDefaults ==
    last_row_appended =>
        /\ last_draft.tipo_pagamento = optional_value(F_PAGAMENTO, NAO_INFORMADO)
        /\ last_draft.nome_vendedor = optional_value(F_VENDEDOR, IMPORTADO)

\* C14: a valid row with Quantity "3" and Unit Value "10,50" or "10.50"
\* becomes a candidate with quantity 3, unit price 10.5 and final price 31.5,
\* and every candidate's final price is its quantity times its unit price.
C14_CommaDotFinalPrice ==
    /\ \A i \in 1..Len(sales_to_insert) :
          LET d == sales_to_insert[i]
          IN  d.preco.k = "fin" =>
                 d.preco_final = Float("fin", d.quantidade * d.preco.v)
    /\ (/\ row # <<>>
        /\ thread # "none"
        /\ last_cell(F_VALOR) \in {c_10v50, c_10p50}
        /\ last_cell(F_QUANTIDADE) = c_3
        /\ last_cell(F_CLIENTE) = c_Ana) =>
          /\ h_outcomes[Len(h_outcomes)] = "append"
          /\ last_draft.quantidade = 3
          /\ last_draft.preco = Float("fin", 1050)
          /\ last_draft.preco_final = Float("fin", 3150)

\* C14 witness: a row with Quantity "3" and Unit Value "10,50" became a
\* candidate
C14_Witness ==
    /\ last_row_appended
    /\ last_cell(F_VALOR) = c_10v50
    /\ last_cell(F_QUANTIDADE) = c_3
    /\ last_draft.preco_final = Float("fin", 3150)

(* ------------------- claims: progress and reporting -------------------- *)
\* the names of the callbacks posted and not yet run
pending == {after_queue[i].cb : i \in 1..Len(after_queue)}

\* C15 as the spec states it: once the posted progress updates have run, the
\* progress bar shows the number of rows processed so far, accepted or
\* skipped, and so rows_total after the last row.
C15_ProgressPerRow ==
    (phase = "Execute" /\ thread \in {"rows", "finished"} /\ "progress" \notin pending) =>
        progress_value = Len(h_outcomes)

\* C16 as the spec states it: the worker thread makes no UI call itself, on
\* the success path and on the store-failure path.
C16_WorkerNeverTouchesUI == h_worker_ui = <<>>

\* C19: a step that shows the "Erro ao Ler Arquivo" box is taken from Idle and
\* stays in Idle, opens no mapping dialog, starts no worker, posts no callback,
\* keeps no DataFrame and leaves the store unchanged.
C19_ReadFailureIsClean ==
    [][ (shown' = MsgBox("error", "Erro ao Ler Arquivo", 0) /\ shown' # shown) =>
            /\ phase = "Idle"
            /\ phase' = "Idle"
            /\ column_mappings' = <<>>
            /\ ~df'.open
            /\ thread' = "none"
            /\ after_queue' = <<>>
            /\ vendas' = vendas
            /\ seq_vendas' = seq_vendas ]_vars

\* C19 witness: the read of a file failed after an earlier import had added
\* sales to the store
C19_Witness ==
    /\ shown = MsgBox("error", "Erro ao Ler Arquivo", 0)
    /\ phase = "Idle"
    /\ Len(vendas) > 1

\* C20: once the worker has finished, an empty batch means the bulk insert
\* was not called, the store is as before and the "Aviso" warning is posted or
\* shown, with no success and no database error; a failed insert means the
\* database error box is shown and neither the warning nor the success box is
\* posted.
C20_EmptyAndFailureDistinct ==
    thread = "finished" =>
        /\ sales_to_insert = <<>> =>
              /\ h_insert = "none"
              /\ vendas = h_vendas_antes
              /\ "showwarning" \in pending \/ shown = MsgBox("warning", "Aviso", 0)
              /\ "showinfo" \notin pending
              /\ shown.title \notin {"Sucesso", "Erro de Banco de Dados"}
        /\ h_insert = "failed" =>
              /\ shown = MsgBox("error", "Erro de Banco de Dados", 0)
              /\ "showwarning" \notin pending
              /\ "showinfo" \notin pending

\* C20 witness: a file whose rows were all rejected ended with the warning
C20_Witness ==
    /\ thread = "finished"
    /\ sales_to_insert = <<>>
    /\ Len(h_outcomes) >= 1
    /\ shown = MsgBox("warning", "Aviso", 0)

(* ------------------------ claims: concurrency -------------------------- *)
\* the import worker threads that are in their loop or at their bulk insert
workers_alive == (IF thread = "rows" THEN 1 ELSE 0) + Len(orphans)

\* C17 as the spec states it: at most one import is active at any time, so
\* there are never two import worker threads alive at once.
C17_AtMostOneWorker == workers_alive <= 1

\* C18 as the spec states it: the interaction thread never uses the store
\* while an import worker has not yet returned from its bulk insert.
C18_NoUiStoreAccessDuringWorker == ~h_ui_db_during_worker

(* ----------------------- completion outcomes --------------------------- *)
\* what the user sees once the completion box of an import is up: the box and
\* the progress bar
outcome_shown == [box |-> shown, progress |-> progress_value]

\* the outcome a file with a header and no rows ends with
zero_row_outcome == [box |-> MsgBox("warning", "Aviso", 0), progress |-> 0]

\* C21 as the spec states it: when every row of a file was skipped, the
\* outcome shown at completion differs from the outcome of a file with no rows.
C21_AllSkippedDistinguished ==
    (/\ thread = "finished"
     /\ h_outcomes # <<>>
     /\ sales_to_insert = <<>>
     /\ after_queue # <<>>
     /\ Head(after_queue).cb = "destroy") =>
        outcome_shown # zero_row_outcome

(* ------------------- claims: unit value fallback ----------------------- *)
\* the keywords of the specific unit-value rule and of the generic one
kw_unit_value_specific == {kw_valor_unit, kw_preco_c_unit, kw_preco_unit,
                           kw_valor_unid, kw_preco_c_unid}
kw_unit_value_generic == {kw_valor, kw_preco_c, kw_preco}

\* columns of the header classified as Unit Value by the specific rule, and
\* columns classified as Unit Value by the generic rule only
specific_unit_cols(columns) ==
    {c \in cols_classified(columns, F_VALOR) :
        any_in(strip(lower(c)), kw_unit_value_specific)}
generic_unit_cols(columns) ==
    {c \in cols_classified(columns, F_VALOR) :
        ~any_in(strip(lower(c)), kw_unit_value_specific)}

\* C26 as the spec states it: when the header has a column matching a specific
\* unit-value keyword and a column matching only the generic rule, Unit Value
\* is assigned to a specific column, whatever their order in the header.
C26_GenericOnlyFallback ==
    (/\ df.open
     /\ specific_unit_cols(df.columns) # {}
     /\ generic_unit_cols(df.columns) # {}) =>
        /\ cols_mapped_to(auto_mapping, F_VALOR) # {}
        /\ cols_mapped_to(auto_mapping, F_VALOR) \subseteq specific_unit_cols(df.columns)

(* ------------------- claims: order of delivery ------------------------- *)
\* the callbacks that end an import: the completion box, the destruction of
\* the progress dialog and the refresh of the table
completion_callbacks == {"showinfo", "showwarning", "destroy", "atualizar_tabela"}

C28_WorkerMappingComplete ==
    thread = "rows" =>
        \A f \in required_fields :
            /\ cols_mapped_to(mapping, f) # {}
            /\ cols_mapped_to(mapping, f) \subseteq Range(df.columns)

\* C28 witness: the worker runs with a mapping submitted from the mapping
\* dialog that differs from the auto-mapping
C28_Witness ==
    /\ thread = "rows"
    /\ \E i \in 1..Len(h_visited) : h_visited[i] = "ManualReview"
    /\ mapping # auto_mapping

(* ----------------------- claims: termination --------------------------- *)
\* the worker thread reaching the end of iterrows: the bulk insert and the
\* completion callbacks
worker_end == \E ok \in BOOLEAN : worker_commit(ok)

\* Spec with the scheduling the program relies on: a started thread keeps
\* running, so that a loop over the finitely many rows of a file comes to its
\* end unless a row kills the thread, and the Tk event loop keeps running the
\* callbacks posted to it
SpecLive == Spec /\ WF_vars(worker_end) /\ WF_vars(run_after)

\* C23 as the spec states it: once Execute begins, the worker finishes, the
\* progress dialog is destroyed and the table refresh it posted has run.
C23_RunsToCompletion ==
    (phase = "Execute") ~> (phase = "Idle" /\ thread = "none" /\ after_queue = <<>>)

(* ----------------------- claims: re-import ----------------------------- *)
\* the mapping a header determines: each field that some column is classified
\* as, paired with the first such column
expected_mapping(columns) ==
    {<<CHOOSE c \in cols_classified(columns, f) :
           \A d \in cols_classified(columns, f) : col_pos(columns, c) <= col_pos(columns, d),
       f>> : f \in {g \in FieldChoices : cols_classified(columns, g) # {} /\ g # IGNORAR}}

\* the number of records at the end of the store before this import that are
\* copies of the batch, in the order of the batch
batch_already_stored ==
    /\ Len(h_vendas_antes) >= Len(sales_to_insert)
    /\ \A i \in 1..Len(sales_to_insert) :
          same_sale(h_vendas_antes[Len(h_vendas_antes) - Len(sales_to_insert) + i],
                    sales_to_insert[i])

\* C22: the mapping produced for an opened file is the one its header
\* determines, whatever was imported before; and a successful import adds one
\* record per valid row even when the store already holds the same sales, so
\* that importing a file with k valid rows twice leaves 2k records.
C22_MappingRepeatsStoreDuplicates ==
    /\ df.open =>
          /\ Range(auto_mapping) = expected_mapping(df.columns)
          /\ Len(auto_mapping) = Cardinality(expected_mapping(df.columns))
    /\ (thread = "finished" /\ h_insert = "ok") =>
          /\ Len(vendas) = Len(h_vendas_antes) + Len(sales_to_insert)
          /\ batch_already_stored =>
                \A i \in 1..Len(sales_to_insert) :
                    /\ same_sale(vendas[Len(vendas) - Len(sales_to_insert) + i],
                                 sales_to_insert[i])
                    /\ same_sale(vendas[Len(vendas) - 2 * Len(sales_to_insert) + i],
                                 sales_to_insert[i])

\* C22 witness: the second successful import of a one-row file into a store
\* that was empty before the first: the store holds the sale twice
C22_Witness ==
    /\ thread = "finished"
    /\ h_insert = "ok"
    /\ Len(sales_to_insert) = 1
    /\ Len(h_vendas_antes) = 1
    /\ batch_already_stored
    /\ Len(vendas) = 2
    /\ auto_mapping = mapping

(* ------------------- claims: exported header --------------------------- *)
\* C30: the header of the sheet that exportar_dados writes for the sales is
\* auto-mapped with no required field unmatched, so the import goes to Confirm;
\* the six fields are mapped to nome_cliente, nome_produto, quantidade,
\* "Valor Unid. (R$)", tipo_pagamento and nome_vendedor, and "ID Venda",
\* data_hora and "Preço Final (R$)" are mapped to no field.
C30_ExportHeaderRoundTrip ==
    (df.open /\ df.columns = ExportedHeader) =>
        /\ missing_fields = {}
        /\ phase \in {"Confirm", "ManualReview"}
        /\ phase = "ManualReview" => answer = "no"
        /\ Range(auto_mapping) = {<<col_nome_cliente, F_CLIENTE>>,
                                  <<col_nome_produto, F_PRODUTO>>,
                                  <<col_quantidade, F_QUANTIDADE>>,
                                  <<col_Valor_Unid, F_VALOR>>,
                                  <<col_tipo_pagamento, F_PAGAMENTO>>,
                                  <<col_nome_vendedor, F_VENDEDOR>>}
        /\ Len(auto_mapping) = 6
        /\ ~dict_has(auto_mapping, col_Preco_Final)

\* C30 witness: the exported sheet has been opened and its mapping is offered
\* for confirmation
C30_Witness ==
    /\ df.open
    /\ df.columns = ExportedHeader
    /\ phase = "Confirm"
    /\ Len(df.columns) = 9
    /\ col_Preco_Final \in Range(df.columns)

(* ------------------- claims: classification rules ---------------------- *)
\* the rules of the classification in the order they are tried: the keywords
\* of a rule and the field it gives
guess_rules ==
    << <<{kw_cliente, kw_comprador}, F_CLIENTE>>,
       <<{kw_produto, kw_item, kw_descricao}, F_PRODUTO>>,
       <<{kw_qtd, kw_quant, kw_quantidade}, F_QUANTIDADE>>,
       <<kw_unit_value_specific, F_VALOR>>,
       <<{kw_vendedor}, F_VENDEDOR>>,
       <<kw_unit_value_generic, F_VALOR>>,
       <<{kw_pagamento, kw_forma, kw_tipo}, F_PAGAMENTO>>,
       <<{kw_nome}, F_CLIENTE>> >>

\* the rules a column name matches
rules_matching(c) ==
    {i \in 1..Len(guess_rules) : any_in(strip(lower(c)), guess_rules[i][1])}

\* the field of the first rule a column name matches, Ignorar if it matches none
first_rule_field(c) ==
    IF rules_matching(c) = {} THEN IGNORAR
    ELSE guess_rules[CHOOSE i \in rules_matching(c) :
                        \A j \in rules_matching(c) : i <= j][2]

first_rule_table == [c \in KnownColumns |-> first_rule_field(c)]

\* a column name with "nome" in it, with a Client Name keyword, with a keyword
\* of one of the five other fields
has_nome(c) == 8 \in rules_matching(c)
has_client_keyword(c) == 1 \in rules_matching(c)
has_other_keyword(c) == rules_matching(c) \cap (2..7) # {}

\* the classification of the columns of the opened file, as far as the
\* auto-mapping shows it: a mapped column carries its class, and a column is
\* unmapped only if its class is Ignorar or an earlier column has the same class
classified_by_first_rule ==
    \A i \in 1..Len(df.columns) :
        LET c == df.columns[i]
            f == first_rule_table[c]
        IN  /\ dict_has(auto_mapping, c) => dict_get(auto_mapping, c) = f
            /\ Cardinality({k \in 1..Len(auto_mapping) : auto_mapping[k][1] = c}) <= 1
            /\ ~dict_has(auto_mapping, c) =>
                  \/ f = IGNORAR
                  \/ \E j \in 1..(i - 1) : first_rule_table[df.columns[j]] = f

\* C25 as the spec states it: every column is classified by its first matching
\* rule, and a column with "nome" in it is Client Name only when it has no
\* keyword of Product, Quantity, Unit Value, Seller or Payment.
C25_NomeOnlyWithoutOtherKeywords ==
    df.open =>
        /\ classified_by_first_rule
        /\ \A c \in Range(df.columns) :
              (has_nome(c) /\ dict_has(auto_mapping, c)
                 /\ dict_get(auto_mapping, c) = F_CLIENTE) => ~has_other_keyword(c)

\* C25: every column is classified by its first matching rule; a column with
\* "nome" in it and no Client Name keyword is Client Name only when it has no
\* keyword of Product, Quantity, Unit Value, Seller or Payment ("Nome do
\* Produto" is Product, "Nome do Vendedor" is Seller), while a column that has
\* a Client Name keyword is Client Name whatever else it contains.
C25_FirstRuleWins ==
    df.open =>
        /\ classified_by_first_rule
        /\ \A c \in Range(df.columns) :
              /\ (has_nome(c) /\ ~has_client_keyword(c) /\ dict_has(auto_mapping, c)
                    /\ dict_get(auto_mapping, c) = F_CLIENTE) => ~has_other_keyword(c)
              /\ (has_client_keyword(c) /\ dict_has(auto_mapping, c)) =>
                    dict_get(auto_mapping, c) = F_CLIENTE
        /\ dict_has(auto_mapping, col_Nome_do_Produto) =>
              dict_get(auto_mapping, col_Nome_do_Produto) = F_PRODUTO
        /\ dict_has(auto_mapping, col_Nome_do_Vendedor) =>
              dict_get(auto_mapping, col_Nome_do_Vendedor) = F_VENDEDOR
        /\ df.columns = <<col_Nome_do_Vendedor, col_Nome_do_Produto>> =>
              Len(auto_mapping) = 2

\* C25 witness: a header with "Nome do Vendedor" before "Nome" has been mapped,
\* the first to Seller Name and the second to Client Name
C25_Witness ==
    /\ df.open
    /\ df.columns = <<col_Nome_do_Vendedor, col_Nome>>
    /\ dict_has(auto_mapping, col_Nome_do_Vendedor)
    /\ dict_get(auto_mapping, col_Nome_do_Vendedor) = F_VENDEDOR
    /\ dict_has(auto_mapping, col_Nome)
    /\ dict_get(auto_mapping, col_Nome) = F_CLIENTE

price_not_negative(f) == f.k = "inf" \/ (f.k = "fin" /\ f.v >= 0)

\* C24 as the spec states it: every sale in the store has a quantity above
\* zero, a unit price that is not negative and a final price equal to the
\* quantity times the unit price.
C24_StoredSalesValid ==
    \A i \in 1..Len(vendas) :
        /\ vendas[i].quantidade > 0
        /\ price_not_negative(vendas[i].preco)
        /\ vendas[i].preco_final.k = vendas[i].preco.k
        /\ vendas[i].preco_final.k = "fin" =>
              vendas[i].preco_final.v = vendas[i].quantidade * vendas[i].preco.v

====
